---- MODULE Spec2Model ----
(***************************************************************************)
(* Model of backend/main.py: the /analyze handler analyze_movie in its two *)
(* revisions (the single-model Bytez revision and the Gemini revision with *)
(* model fallback and retry), together with the text functions it calls:   *)
(* re.search(r'\{.*\}', text, re.DOTALL), json.loads, str(exception) and   *)
(* the substring tests that classify an error.                             *)
(*                                                                         *)
(* A text is a sequence of one-character strings.  Positions are counted   *)
(* from 0 as in Python; s[i + 1] is Python's s[i].                         *)
(*                                                                         *)
(* A JSON value is a tagged tuple:                                         *)
(*   <<"null">>  <<"bool", b>>  <<"num", n>>  <<"str", text>>              *)
(*   <<"arr", sequence of values>>  <<"obj", function from keys to values>>*)
(***************************************************************************)
EXTENDS Integers, Sequences, FiniteSets, TLC

(***************************************************************************)
(* Text helpers                                                            *)
(***************************************************************************)

\* s[i:j] of Python, 0 <= i
Slice(s, i, j) ==
    IF i >= Len(s) \/ j <= i THEN <<>>
    ELSE SubSeq(s, i + 1, IF j > Len(s) THEN Len(s) ELSE j)

\* s[i:i+1] of Python: the character at i, or the empty string past the end
At(s, i) ==
    IF i < Len(s) THEN s[i + 1] ELSE ""

\* "sub in s" of Python
Contains(sub, s) ==
    \E i \in 0..(Len(s) - Len(sub)) : Slice(s, i, i + Len(sub)) = sub

UpperCase == <<"A","B","C","D","E","F","G","H","I","J","K","L","M",
               "N","O","P","Q","R","S","T","U","V","W","X","Y","Z">>

LowerCase == <<"a","b","c","d","e","f","g","h","i","j","k","l","m",
               "n","o","p","q","r","s","t","u","v","w","x","y","z">>

LowerChar(c) ==
    IF \E i \in 1..26 : UpperCase[i] = c
    THEN LowerCase[CHOOSE i \in 1..26 : UpperCase[i] = c]
    ELSE c

\* str.lower() on the alphabet of the model
Lower(s) ==
    [i \in 1..Len(s) |-> LowerChar(s[i])]

DigitChars == <<"0", "1", "2", "3", "4", "5", "6", "7", "8", "9">>

IsDigit(c) ==
    \E d \in 1..10 : DigitChars[d] = c

DigitVal(c) ==
    (CHOOSE d \in 1..10 : DigitChars[d] = c) - 1

RECURSIVE Digits(_)
\* str(n) for a natural number n
Digits(n) ==
    IF n < 10 THEN <<DigitChars[n + 1]>>
    ELSE Append(Digits(n \div 10), DigitChars[(n % 10) + 1])

(***************************************************************************)
(* json.loads                                                              *)
(***************************************************************************)

None == <<"null">>

EmptyDict == <<"obj", <<>> >>

WHITESPACE_STR == {" ", "\t", "\n", "\r"}

ControlChars == {"\t", "\n", "\r"}

\* the keys of json.decoder.BACKSLASH; the backspace character is written "\\b"
EscapeChars == {"\"", "\\", "/", "b", "f", "n", "t", "r"}

BACKSLASH(esc) ==
    CASE esc = "n" -> "\n" [] esc = "t" -> "\t" [] esc = "r" -> "\r"
      [] esc = "f" -> "\f" [] esc = "b" -> "\\b"
      [] OTHER -> esc

MsgExpectingValue == <<"E","x","p","e","c","t","i","n","g"," ","v","a","l","u","e">>
MsgExtraData == <<"E","x","t","r","a"," ","d","a","t","a">>
MsgPropertyName == <<"E","x","p","e","c","t","i","n","g"," ","p","r","o","p","e","r","t","y"," ","n","a","m","e"," ","e","n","c","l","o","s","e","d"," ","i","n"," ","d","o","u","b","l","e"," ","q","u","o","t","e","s">>
MsgColon == <<"E","x","p","e","c","t","i","n","g"," ","'",":","'"," ","d","e","l","i","m","i","t","e","r">>
MsgComma == <<"E","x","p","e","c","t","i","n","g"," ","'",",","'"," ","d","e","l","i","m","i","t","e","r">>
MsgUnterminated == <<"U","n","t","e","r","m","i","n","a","t","e","d"," ","s","t","r","i","n","g"," ","s","t","a","r","t","i","n","g"," ","a","t">>
MsgControlChar == <<"I","n","v","a","l","i","d"," ","c","o","n","t","r","o","l"," ","c","h","a","r","a","c","t","e","r"," ","a","t">>
MsgEscape == <<"I","n","v","a","l","i","d"," ","\\","e","s","c","a","p","e">>

\* a decoded value and the index after it
Decoded(v, e) ==
    [ok |-> TRUE, val |-> v, end |-> e, msg |-> <<>>]

\* JSONDecodeError(msg, doc, pos)
JSONDecodeError(m, p) ==
    [ok |-> FALSE, val |-> None, end |-> p, msg |-> m]

\* WHITESPACE.match(s, i).end(): the end of the run of whitespace that starts at i
SkipWs(s, i) ==
    IF i >= Len(s) THEN i
    ELSE CHOOSE j \in i..Len(s) :
            /\ j = Len(s) \/ s[j + 1] \notin WHITESPACE_STR
            /\ \A k \in (i + 1)..j : s[k] \in WHITESPACE_STR

RECURSIVE scanstring_loop(_, _, _, _)
scanstring_loop(s, begin, end, chunks) ==
    IF end >= Len(s) THEN JSONDecodeError(MsgUnterminated, begin)
    ELSE LET c == s[end + 1] IN
         IF c = "\"" THEN Decoded(<<"str", chunks>>, end + 1)
         ELSE IF c \in ControlChars THEN JSONDecodeError(MsgControlChar, end)
         ELSE IF c = "\\" THEN
              IF end + 1 >= Len(s) THEN JSONDecodeError(MsgUnterminated, begin)
              ELSE LET esc == s[end + 2] IN
                   IF esc \in EscapeChars
                   THEN scanstring_loop(s, begin, end + 2, Append(chunks, BACKSLASH(esc)))
                   ELSE JSONDecodeError(MsgEscape, end)
         ELSE scanstring_loop(s, begin, end + 1, Append(chunks, c))

\* scanstring(s, end): end is the index after the opening quote
scanstring(s, end) ==
    scanstring_loop(s, end - 1, end, <<>>)

RECURSIVE ScanDigits(_, _, _)
ScanDigits(s, i, acc) ==
    IF IsDigit(At(s, i)) THEN ScanDigits(s, i + 1, 10 * acc + DigitVal(s[i + 1]))
    ELSE <<acc, i>>

\* NUMBER_RE.match(s, idx) restricted to integers: -?(0|[1-9][0-9]*)
match_number(s, idx) ==
    LET neg == At(s, idx) = "-"
        i0 == IF neg THEN idx + 1 ELSE idx
        c0 == At(s, i0)
    IN  IF c0 = "0" THEN Decoded(<<"num", 0>>, i0 + 1)
        ELSE IF IsDigit(c0)
        THEN LET r == ScanDigits(s, i0, 0)
             IN  Decoded(<<"num", IF neg THEN 0 - r[1] ELSE r[1]>>, r[2])
        ELSE JSONDecodeError(MsgExpectingValue, idx)

RECURSIVE scan_once(_, _)
RECURSIVE JSONObject_loop(_, _, _)
RECURSIVE JSONArray_loop(_, _, _)

\* the body of JSONObject's while loop; end is the index after the key's opening quote
JSONObject_loop(s, end, pairs) ==
    LET k == scanstring(s, end) IN
    IF ~k.ok THEN k ELSE
    LET e2 == SkipWs(s, k.end) IN
    IF At(s, e2) # ":" THEN JSONDecodeError(MsgColon, e2) ELSE
    LET v == scan_once(s, SkipWs(s, e2 + 1)) IN
    IF ~v.ok THEN v ELSE
    LET d == (k.val[2] :> v.val) @@ pairs
        e4 == SkipWs(s, v.end)
        c == At(s, e4)
    IN  IF c = "}" THEN Decoded(<<"obj", d>>, e4 + 1)
        ELSE IF c # "," THEN JSONDecodeError(MsgComma, e4)
        ELSE LET e5 == SkipWs(s, e4 + 1) IN
             IF At(s, e5) # "\"" THEN JSONDecodeError(MsgPropertyName, e5)
             ELSE JSONObject_loop(s, e5 + 1, d)

\* JSONObject((s, end), ...): end is the index after the opening brace
JSONObject(s, end) ==
    LET e1 == SkipWs(s, end)
        c == At(s, e1)
    IN  IF c = "}" THEN Decoded(EmptyDict, e1 + 1)
        ELSE IF c # "\"" THEN JSONDecodeError(MsgPropertyName, e1)
        ELSE JSONObject_loop(s, e1 + 1, <<>>)

\* the body of JSONArray's while loop; end is the index of the next value
JSONArray_loop(s, end, values) ==
    LET v == scan_once(s, end) IN
    IF ~v.ok THEN v ELSE
    LET vs == Append(values, v.val)
        e2 == SkipWs(s, v.end)
        c == At(s, e2)
    IN  IF c = "]" THEN Decoded(<<"arr", vs>>, e2 + 1)
        ELSE IF c # "," THEN JSONDecodeError(MsgComma, e2)
        ELSE JSONArray_loop(s, SkipWs(s, e2 + 1), vs)

\* JSONArray((s, end), scan_once): end is the index after the opening bracket
JSONArray(s, end) ==
    LET e1 == SkipWs(s, end) IN
    IF At(s, e1) = "]" THEN Decoded(<<"arr", <<>> >>, e1 + 1)
    ELSE JSONArray_loop(s, e1, <<>>)

\* scan_once(string, idx); StopIteration(idx) always ends as "Expecting value" at idx
scan_once(s, idx) ==
    LET nextchar == At(s, idx) IN
    IF nextchar = "\"" THEN scanstring(s, idx + 1)
    ELSE IF nextchar = "{" THEN JSONObject(s, idx + 1)
    ELSE IF nextchar = "[" THEN JSONArray(s, idx + 1)
    ELSE IF nextchar = "n" /\ Slice(s, idx, idx + 4) = <<"n","u","l","l">>
    THEN Decoded(None, idx + 4)
    ELSE IF nextchar = "t" /\ Slice(s, idx, idx + 4) = <<"t","r","u","e">>
    THEN Decoded(<<"bool", TRUE>>, idx + 4)
    ELSE IF nextchar = "f" /\ Slice(s, idx, idx + 5) = <<"f","a","l","s","e">>
    THEN Decoded(<<"bool", FALSE>>, idx + 5)
    ELSE match_number(s, idx)

\* json.loads(s): JSONDecoder.decode
json_loads(s) ==
    LET r == scan_once(s, SkipWs(s, 0)) IN
    IF ~r.ok THEN r
    ELSE LET end == SkipWs(s, r.end) IN
         IF end # Len(s) THEN JSONDecodeError(MsgExtraData, end) ELSE r

\* the number of "\n" in s[0:pos]
CountNewlines(s, pos) ==
    Cardinality({i \in 1..pos : i <= Len(s) /\ s[i] = "\n"})

\* pos - doc.rindex("\n", 0, pos), or pos + 1 when there is no newline before pos
ColNo(s, pos) ==
    LET nl == {i \in 1..pos : i <= Len(s) /\ s[i] = "\n"} IN
    IF nl = {} THEN pos + 1
    ELSE pos - ((CHOOSE i \in nl : \A j \in nl : j <= i) - 1)

\* str(e) of the JSONDecodeError r raised on document s
JSONDecodeErrorStr(r, s) ==
    r.msg \o <<":"," ","l","i","n","e"," ">> \o Digits(CountNewlines(s, r.end) + 1)
          \o <<" ","c","o","l","u","m","n"," ">> \o Digits(ColNo(s, r.end))
          \o <<" ","(","c","h","a","r"," ">> \o Digits(r.end) \o <<")">>

(***************************************************************************)
(* re.search(r'\{.*\}', text, re.DOTALL) and the parsing of a response     *)
(***************************************************************************)

\* the index (from 1) of the first c in s, or 0
FirstIndex(s, c) ==
    IF \E i \in 1..Len(s) : s[i] = c
    THEN CHOOSE i \in 1..Len(s) : s[i] = c /\ \A j \in 1..(i - 1) : s[j] # c
    ELSE 0

\* the index (from 1) of the last c in s, or 0
LastIndex(s, c) ==
    IF \E i \in 1..Len(s) : s[i] = c
    THEN CHOOSE i \in 1..Len(s) : s[i] = c /\ \A j \in (i + 1)..Len(s) : s[j] # c
    ELSE 0

\* the lazy pattern r'\{.*?\}': from the first "{" to the first "}" after it
re_search_lazy(text) ==
    LET a == FirstIndex(text, "{")
        after == {i \in 1..Len(text) : i > a /\ text[i] = "}"}
    IN  IF a # 0 /\ after # {}
        THEN [found |-> TRUE,
              group0 |-> SubSeq(text, a, CHOOSE i \in after : \A j \in after : i <= j)]
        ELSE [found |-> FALSE, group0 |-> <<>>]

\* re.search(r'\{.*\}', text, re.DOTALL): the leftmost "{" that has a "}" after it,
\* up to the last "}" of the text (".*" is greedy and DOTALL lets it cross newlines)
re_search(text) ==
    LET a == FirstIndex(text, "{")
        b == LastIndex(text, "}")
    IN  IF a # 0 /\ b > a
        THEN [found |-> TRUE, group0 |-> SubSeq(text, a, b)]
        ELSE [found |-> FALSE, group0 |-> <<>>]

\* "specific cleaning for JSON": the document handed to json.loads
json_str(text_response) ==
    LET match == re_search(text_response) IN
    IF match.found THEN match.group0 ELSE text_response

\* the outcome of json.loads on the cleaned document: the analysis when r decoded
\* it, or the text of the JSONDecodeError r
parse_outcome(doc, r) ==
    IF r.ok THEN [ok |-> TRUE, analysis |-> r.val, error_str |-> <<>>]
    ELSE [ok |-> FALSE, analysis |-> None, error_str |-> JSONDecodeErrorStr(r, doc)]

\* bool(v) of Python
Truthy(v) ==
    CASE v[1] = "null" -> FALSE
      [] v[1] = "bool" -> v[2]
      [] v[1] = "num" -> v[2] # 0
      [] v[1] = "str" -> v[2] # <<>>
      [] v[1] = "arr" -> v[2] # <<>>
      [] v[1] = "obj" -> DOMAIN v[2] # {}
      [] OTHER -> TRUE

\* an exception object carrying its message
Exc(text) == <<"exc", text>>

\* str(last_error): the message, or "None" for None
str(e) ==
    IF e = None THEN <<"N","o","n","e">> ELSE e[2]

\* the test written as: "429" or "quota" in error_str.lower(), true of every text
is_rate_limit_always(error_str) ==
    TRUE

\* line 279: "429" in error_str or "quota" in error_str.lower()
is_rate_limit(error_str) ==
    \/ Contains(<<"4","2","9">>, error_str)
    \/ Contains(<<"q","u","o","t","a">>, Lower(error_str))

\* line 284: "404" in error_str
is_not_found(error_str) ==
    Contains(<<"4","0","4">>, error_str)

\* an except block that also retries on "404"
error_branch_retry_404(error_str) ==
    IF is_rate_limit(error_str) \/ is_not_found(error_str) THEN "retry" ELSE "skip"

\* the branch of the except block (lines 276-291) taken for an error text
error_branch(error_str) ==
    IF is_rate_limit(error_str) THEN "retry"
    ELSE IF is_not_found(error_str) THEN "skip_404"
    ELSE "skip"

\* line 295: "429" in str(last_error)
exhausted_status(e) ==
    IF Contains(<<"4","2","9">>, str(e)) THEN 429 ELSE 500

(***************************************************************************)
(* The inputs of a request: what the catalog and the backends answer       *)
(***************************************************************************)

\* the longest result list the catalog search returns in the model
MaxResults == 2

\* the longest review list the catalog returns in the model
MaxReviewCount == 6

KeySentimentSummary == <<"s","e","n","t","i","m","e","n","t","_","s","u","m","m","a","r","y">>
KeyVibeTags == <<"v","i","b","e","_","t","a","g","s">>
KeyIntensityScore == <<"i","n","t","e","n","s","i","t","y","_","s","c","o","r","e">>

\* a response that follows the prompt
TextValid == <<"{","\"","s","e","n","t","i","m","e","n","t","_","s","u","m","m","a","r","y","\"",":"," ","\"","o","k","\"",","," ","\"","v","i","b","e","_","t","a","g","s","\"",":"," ","[","\"","a","\"",","," ","\"","b","\"",","," ","\"","c","\"","]",","," ","\"","i","n","t","e","n","s","i","t","y","_","s","c","o","r","e","\"",":"," ","8","}">>

\* the same object inside a markdown fence (~~~json ... ~~~)
TextFenced == <<"~","~","~","j","s","o","n","\n">> \o TextValid \o <<"\n","~","~","~">>

\* a JSON object without the keys the prompt asks for
TextPartial == <<"{","\"","a","\"",":"," ","1","}">>

\* JSON values that Python takes as false
TextEmptyObject == <<"{","}">>
TextNull == <<"n","u","l","l">>

\* texts that are not JSON, without and with a brace span
TextGarbage == <<"o","o","p","s">>
TextBraces == <<"{","o","o","p","s","}">>

\* a text that is not JSON from its character 429 on: 429 blanks, then "x"
TextOffset429 == [k \in 1..429 |-> " "] \o <<"x">>

OutputTexts ==
    {TextValid, TextFenced, TextPartial, TextEmptyObject, TextNull, TextGarbage, TextBraces,
     TextOffset429}

\* messages of the exceptions a backend raises
Err429 == <<"4","2","9"," ","b","u","s","y">>
ErrQuota == <<"Q","u","o","t","a"," ","e","x","c","e","e","d","e","d">>
Err404 == <<"4","0","4"," ","n","o"," ","m","o","d","e","l">>
ErrOther == <<"b","o","o","m">>

ErrorTexts == {Err429, ErrQuota, Err404, ErrOther}

\* what one call of a generation backend does: it raises text, or returns text
Responses ==
    {[raised |-> TRUE, text |-> e] : e \in ErrorTexts}
        \cup {[raised |-> FALSE, text |-> t] : t \in OutputTexts}

\* lines 128-134 and 265-271 applied to each text a backend returns:
\* the document handed to json.loads, what json.loads makes of it, and the outcome
json_strs ==
    [t \in OutputTexts |-> json_str(t)]

loaded ==
    [t \in OutputTexts |-> json_loads(json_strs[t])]

parsed_outputs ==
    [t \in OutputTexts |-> parse_outcome(json_strs[t], loaded[t])]

\* the outcome of the try block for each response: the analysis, or the text of the exception
try_block ==
    [resp \in Responses |->
        IF resp.raised
        THEN [ok |-> FALSE, analysis |-> None, error_str |-> resp.text]
        ELSE parsed_outputs[resp.text]]

\* the branch of lines 273-291 that each response takes
branches ==
    [resp \in Responses |->
        IF try_block[resp].ok THEN "success" ELSE error_branch(try_block[resp].error_str)]

MovieUp == [id |-> 1, title |-> <<"U","p">>, poster_path |-> <<"/","u">>, overview |-> <<"o","v">>]
MovieIt == [id |-> 2, title |-> <<"I","t">>, poster_path |-> <<>>, overview |-> <<>>]

Movies == {MovieUp, MovieIt}

NoMovie == [id |-> 0, title |-> <<>>, poster_path |-> <<>>, overview |-> <<>>]

\* search_res["results"]: the result lists of the catalog search
SearchResults ==
    UNION {[1..n -> Movies] : n \in 0..MaxResults}

\* reviews_res["results"]: n reviews, the i-th with content "r<i>"
CatalogReviews(n) ==
    [i \in 1..n |-> <<"r", DigitChars[i + 1]>>]

(***************************************************************************)
(* The request                                                             *)
(***************************************************************************)

VARIABLES
    variant,        \* which revision of analyze_movie serves the request
    TMDB_API_KEY,   \* TRUE when the environment sets the key
    AI_API_KEY,     \* BYTEZ_API_KEY or GEMINI_API_KEY: TRUE when set
    pc,             \* the position of the handler
    status,         \* the HTTP status of the response, 0 while running
    movie,          \* search_res["results"][0]
    reviews,        \* the review texts handed to the prompt
    analysis,
    last_error,
    model_idx,      \* the position of model_name in models_to_try
    attempt,        \* the loop variable of range(max_retries)
    catalog_calls,  \* the requests.get calls made
    trace,          \* the backend invocations and sleeps, in order
    last_call,      \* what the most recent backend invocation did
    search,         \* what the catalog search did
    norm,           \* the normalizer on its own: its input and its result
    fetched,        \* what the review fetch did
    reviews_text,   \* the joined reviews, cut to the cap
    prompt,
    image,          \* the image step on its own: the backend's output and the URL made of it
    conc            \* two calls of analyze_movie served at once: their local variables

vars == <<variant, TMDB_API_KEY, AI_API_KEY, pc, status, movie, reviews, analysis,
          last_error, model_idx, attempt, catalog_calls, trace, last_call, search, norm,
          fetched, reviews_text, prompt, image, conc>>

\* line 242
models_to_try == <<"gemini-2.0-flash", "gemini-1.5-flash", "gemini-1.5-flash-001", "gemini-pro">>

\* line 256
max_retries == 3

\* lines 83 and 214: results[:5]
TopReviews == 5

Variants == {"bytez", "gemini"}

\* an entry of trace
Invoke(cand) == [ev |-> "invoke", cand |-> cand]

Sleep(cand) == [ev |-> "sleep", cand |-> cand]

\* kind is "error" (the backend raised), "parse_error" (json.loads raised) or "parsed"
Call(cand, kind, branch, val, error_str) ==
    [cand |-> cand, kind |-> kind, branch |-> branch, val |-> val, error_str |-> error_str]

NoCall == Call(0, "", "", None, <<>>)

\* the outcome of the catalog search and the number of matches it returned
Searched(outcome, results) == [outcome |-> outcome, matches |-> Len(results)]

NoSearch == [outcome |-> "", matches |-> 0]

\* the outcome of the review fetch and the number of reviews the catalog returned
Fetched(failed, n) == [done |-> TRUE, failed |-> failed, count |-> IF failed THEN 0 ELSE n]

NoFetch == [done |-> FALSE, failed |-> FALSE, count |-> 0]

NoConc == [frames |-> <<>>, scripts |-> <<>>, calls |-> <<>>, steps |-> <<>>]

NoImage == [stage |-> "", output |-> None, url |-> None]

NoNorm ==
    [stage |-> "", original |-> None, prefix |-> <<>>, suffix |-> <<>>, text |-> <<>>,
     ok |-> FALSE, result |-> None]

\* a key check that passes when either key is set
keys_missing_both(tmdb_key, ai_key) ==
    ~tmdb_key /\ ~ai_key

\* lines 47 and 178: not TMDB_API_KEY or not BYTEZ_API_KEY / GEMINI_API_KEY
keys_missing(tmdb_key, ai_key) ==
    ~tmdb_key \/ ~ai_key

\* a loop over models_to_try without the break on a truthy analysis
models_loop_ends_no_break(idx, a) ==
    idx = Len(models_to_try)

\* lines 249-251: the for loop over models_to_try ends after the last model,
\* or by the break at the top of the next pass when analysis is truthy
models_loop_ends(idx, a) ==
    idx = Len(models_to_try) \/ Truthy(a)

\* a retry loop without a limit: while True
retry_again_unbounded(branch, att) ==
    branch = "retry"

\* lines 257 and 283: "continue" starts the next pass of range(max_retries), if there is one
retry_again(branch, att) ==
    branch = "retry" /\ att + 1 < max_retries

kind_of(resp, r) ==
    IF resp.raised THEN "error" ELSE IF r.ok THEN "parsed" ELSE "parse_error"

\* the local variables of a call of analyze_movie that Step C reads and writes
Frame ==
    [pc |-> pc, status |-> status, analysis |-> analysis, last_error |-> last_error,
     model_idx |-> model_idx, attempt |-> attempt]

\* lines 244-245 and the first pass of the loops
InitFrame ==
    [pc |-> "generate", status |-> 0, analysis |-> None, last_error |-> None,
     model_idx |-> 1, attempt |-> 0]

\* one pass of the body of the retry loop, lines 257-291, with the loop control
\* of lines 249-251 and 257 that follows it, on the local variables f
generate_step(f, resp) ==
    LET r == try_block[resp]
        branch == branches[resp]
        analysis1 == IF r.ok THEN r.analysis ELSE f.analysis
        same_model == retry_again(branch, f.attempt)
        loop_over == models_loop_ends(f.model_idx, analysis1)
    IN  [f EXCEPT !.analysis = analysis1,
                  !.last_error = IF r.ok THEN f.last_error ELSE Exc(r.error_str),
                  !.attempt = IF same_model THEN f.attempt + 1
                              ELSE IF loop_over THEN f.attempt ELSE 0,
                  !.model_idx = IF same_model \/ loop_over THEN f.model_idx
                                ELSE f.model_idx + 1,
                  !.pc = IF ~same_model /\ loop_over THEN "finish" ELSE f.pc]

\* lines 293-303 on the local variables f
finish_step(f) ==
    [f EXCEPT !.pc = "done",
              !.status = IF ~Truthy(f.analysis) THEN exhausted_status(f.last_error) ELSE 200]

Init ==
    /\ variant \in Variants
    /\ TMDB_API_KEY \in BOOLEAN
    /\ AI_API_KEY \in BOOLEAN
    /\ pc = "check_keys"
    /\ status = 0
    /\ movie = NoMovie
    /\ reviews = <<>>
    /\ analysis = None
    /\ last_error = None
    /\ model_idx = 1
    /\ attempt = 0
    /\ catalog_calls = 0
    /\ trace = <<>>
    /\ last_call = NoCall
    /\ search = NoSearch
    /\ norm = NoNorm
    /\ fetched = NoFetch
    /\ reviews_text = <<>>
    /\ prompt = <<>>
    /\ image = NoImage
    /\ conc = NoConc

\* raise HTTPException(status_code=code, ...) leaving the handler
Respond(code) ==
    /\ status' = code
    /\ pc' = "done"

\* lines 47-49 and 178-180
CheckKeys ==
    /\ pc = "check_keys"
    /\ IF keys_missing(TMDB_API_KEY, AI_API_KEY)
       THEN Respond(500)
       ELSE pc' = "search" /\ UNCHANGED status
    /\ UNCHANGED <<variant, TMDB_API_KEY, AI_API_KEY, movie, reviews, analysis,
                   last_error, model_idx, attempt, catalog_calls, trace, last_call, search, norm,
                   fetched, reviews_text, prompt, image, conc>>

\* a Step A without the handler for requests' HTTPError
search_status_no_502(outcome, results) ==
    IF outcome # "ok" \/ results = <<>> THEN 500 ELSE 0

\* the status the try block of Step A ends with, 0 when it falls through.
\* HTTPException derives from Exception and not from requests' HTTPError, so the
\* 404 raised inside the try block is caught by "except Exception" and replaced.
search_status(outcome, results) ==
    CASE outcome = "http_error" -> 502         \* raise_for_status(): HTTPError
      [] outcome = "connection_error" -> 500   \* requests.get raises
      [] outcome = "bad_json" -> 500           \* response.json() raises
      [] OTHER -> IF results = <<>> THEN 500 ELSE 0

SearchOutcomes == {"ok", "http_error", "connection_error", "bad_json"}

\* Step A, lines 51-75 and 182-206
SearchTMDB(outcome, results) ==
    /\ pc = "search"
    /\ catalog_calls' = catalog_calls + 1
    /\ search' = Searched(outcome, IF outcome = "ok" THEN results ELSE <<>>)
    /\ LET code == search_status(outcome, results) IN
       IF code # 0
       THEN Respond(code) /\ UNCHANGED movie
       ELSE /\ movie' = results[1]
            /\ pc' = "reviews"
            /\ UNCHANGED status
    /\ UNCHANGED <<variant, TMDB_API_KEY, AI_API_KEY, reviews, analysis,
                   last_error, model_idx, attempt, trace, last_call, norm,
                   fetched, reviews_text, prompt, image, conc>>

\* a slice that keeps the whole list
Top_no_limit(results) ==
    results

\* results[:5]
Top(results) ==
    SubSeq(results, 1, IF Len(results) > TopReviews THEN TopReviews ELSE Len(results))

\* Step B, lines 77-92 and 208-223
FetchReviews(failed, n) ==
    /\ pc = "reviews"
    /\ catalog_calls' = catalog_calls + 1
    /\ reviews' = IF failed \/ Top(CatalogReviews(n)) = <<>>
                  THEN <<movie.overview>>
                  ELSE Top(CatalogReviews(n))
    /\ fetched' = Fetched(failed, n)
    /\ pc' = "prompt"
    /\ UNCHANGED <<variant, TMDB_API_KEY, AI_API_KEY, status, movie, analysis,
                   last_error, model_idx, attempt, trace, last_call, search, norm,
                   reviews_text, prompt, image, conc>>

RECURSIVE join(_, _)
\* sep.join(items)
join(sep, items) ==
    IF items = <<>> THEN <<>>
    ELSE IF Len(items) = 1 THEN items[1]
    ELSE items[1] \o sep \o join(sep, Tail(items))

BlankLine == <<"\n", "\n">>

\* lines 97 and 228: the character cap of the reviews text
reviews_cap(v) ==
    IF v = "bytez" THEN 5000 ELSE 10000

\* a cut that keeps one character more than the cap
truncate_off_by_one(text, cap) ==
    IF Len(text) > cap THEN Slice(text, 0, cap + 1) ELSE text

\* lines 97-98 and 228-229: if len(reviews_text) > cap: reviews_text = reviews_text[:cap]
truncate(text, cap) ==
    IF Len(text) > cap THEN Slice(text, 0, cap) ELSE text

\* lines 100-105 and 231-236: the literal parts of the prompt
PromptHead == <<"A","n","a","l","y","z","e"," ","t","h","e","s","e"," ","r","e","v","i","e","w","s"," ","f","o","r"," ","t","h","e"," ","m","o","v","i","e"," ","'">>

PromptTail == <<"'","."," ","R","e","t","u","r","n"," ","a"," ","s","t","r","i","c","t","l","y"," ","v","a","l","i","d"," ","J","S","O","N"," ","o","b","j","e","c","t"," ","(","n","o"," ","m","a","r","k","d","o","w","n"," ","f","o","r","m","a","t","t","i","n","g",","," ","n","o"," ","c","o","m","m","e","n","t","s",")"," ","w","i","t","h"," ","k","e","y","s",":"," ","'","s","e","n","t","i","m","e","n","t","_","s","u","m","m","a","r","y","'"," ","(","1"," ","s","e","n","t","e","n","c","e"," ","s","t","r","i","n","g",")",","," ","'","v","i","b","e","_","t","a","g","s","'"," ","(","l","i","s","t"," ","o","f"," ","3","-","5"," ","s","t","r","i","n","g","s",")",","," ","a","n","d"," ","'","i","n","t","e","n","s","i","t","y","_","s","c","o","r","e","'"," ","(","i","n","t","e","g","e","r"," ","1","-","1","0",")",".","\n","\n","R","e","v","i","e","w","s",":","\n">>

\* the instruction text that precedes the reviews
preamble(movie_title) ==
    PromptHead \o movie_title \o PromptTail

build_prompt(movie_title, text) ==
    preamble(movie_title) \o text

\* lines 95-106 and 226-237
BuildPrompt ==
    /\ pc = "prompt"
    /\ \E text \in {truncate(join(BlankLine, reviews), reviews_cap(variant))} :
          /\ reviews_text' = text
          /\ prompt' = build_prompt(movie.title, text)
    /\ pc' = IF variant = "bytez" THEN "bytez" ELSE "generate"
    /\ UNCHANGED <<variant, TMDB_API_KEY, AI_API_KEY, status, movie, reviews, analysis,
                   last_error, model_idx, attempt, catalog_calls, trace, last_call, search,
                   norm, fetched, image, conc>>

\* Step C of the Bytez revision, lines 108-147: one model, no retry
RunBytez(resp) ==
    /\ pc = "bytez"
    /\ LET r == try_block[resp]
           branch == IF r.ok THEN "success" ELSE "fail"
       IN  /\ Respond(IF r.ok THEN 200 ELSE 500)
           /\ analysis' = IF r.ok THEN r.analysis ELSE analysis
           /\ trace' = Append(trace, Invoke(1))
           /\ last_call' = Call(1, kind_of(resp, r), branch, r.analysis, r.error_str)
    /\ UNCHANGED <<variant, TMDB_API_KEY, AI_API_KEY, movie, reviews,
                   last_error, model_idx, attempt, catalog_calls, search, norm,
                   fetched, reviews_text, prompt, image, conc>>

\* Step C of the Gemini revision: one pass of the body of the retry loop,
\* lines 257-291, with the loop control of lines 249-251 and 257 that follows it
GenerateContent(resp) ==
    /\ pc = "generate"
    /\ \E f \in {generate_step(Frame, resp)} :
          /\ analysis' = f.analysis
          /\ last_error' = f.last_error
          /\ model_idx' = f.model_idx
          /\ attempt' = f.attempt
          /\ pc' = f.pc
    /\ LET r == try_block[resp]
           branch == branches[resp]
       IN  /\ trace' = trace \o <<Invoke(model_idx)>>
                             \o (IF branch = "retry" THEN <<Sleep(model_idx)>> ELSE <<>>)
           /\ last_call' = Call(model_idx, kind_of(resp, r), branch, r.analysis, r.error_str)
    /\ UNCHANGED <<variant, TMDB_API_KEY, AI_API_KEY, status, movie, reviews, catalog_calls,
                   search, norm, fetched, reviews_text, prompt, image, conc>>

\* lines 293-303
Finish ==
    /\ pc = "finish"
    /\ Respond(finish_step(Frame).status)
    /\ UNCHANGED <<variant, TMDB_API_KEY, AI_API_KEY, movie, reviews, analysis,
                   last_error, model_idx, attempt, catalog_calls, trace, last_call, search, norm,
                   fetched, reviews_text, prompt, image, conc>>

Next ==
    \/ CheckKeys
    \/ \E outcome \in SearchOutcomes, results \in SearchResults : SearchTMDB(outcome, results)
    \/ \E failed \in BOOLEAN, n \in 0..MaxReviewCount : FetchReviews(failed, n)
    \/ BuildPrompt
    \/ \E resp \in Responses : RunBytez(resp)
    \/ \E resp \in Responses : GenerateContent(resp)
    \/ Finish

Spec == Init /\ [][Next]_vars

\* the orchestrator on its own: Step C of the Gemini revision from its first
\* invocation on, after a search that matched and a review fetch that failed
InitOrchestrator ==
    /\ variant = "gemini"
    /\ TMDB_API_KEY = TRUE
    /\ AI_API_KEY = TRUE
    /\ pc = "generate"
    /\ status = 0
    /\ movie \in Movies
    /\ reviews = <<movie.overview>>
    /\ analysis = None
    /\ last_error = None
    /\ model_idx = 1
    /\ attempt = 0
    /\ catalog_calls = 2
    /\ trace = <<>>
    /\ last_call = NoCall
    /\ search = Searched("ok", <<movie>>)
    /\ norm = NoNorm
    /\ fetched = Fetched(TRUE, 0)
    /\ reviews_text = movie.overview
    /\ prompt = build_prompt(movie.title, movie.overview)
    /\ image = NoImage
    /\ conc = NoConc

NextOrchestrator ==
    \/ \E resp \in Responses : GenerateContent(resp)
    \/ Finish

\* the loops run to their end: every call of a backend returns or raises,
\* and nothing else holds a step of the handler back
SpecOrchestrator ==
    InitOrchestrator /\ [][NextOrchestrator]_vars /\ WF_vars(NextOrchestrator)

(***************************************************************************)
(* The normalizer on its own: lines 128-134 and 265-271 applied to an      *)
(* analysis object that json.dumps serialized and some text surrounds      *)
(***************************************************************************)

\* the longest text put before and after the serialized object
MaxWrapLen == 2

WrapChars == {"x", "{", "}"}

Wrappers ==
    UNION {[1..n -> WrapChars] : n \in 0..MaxWrapLen}

FenceOpen == <<"~","~","~","j","s","o","n","\n">>
FenceClose == <<"\n","~","~","~">>

Prefixes == Wrappers \cup {FenceOpen}
Suffixes == Wrappers \cup {FenceClose}

\* json.dumps of one character of a string (ESCAPE_DCT)
dumps_char(c) ==
    CASE c = "\"" -> <<"\\", "\"">>
      [] c = "\\" -> <<"\\", "\\">>
      [] c = "\n" -> <<"\\", "n">>
      [] c = "\t" -> <<"\\", "t">>
      [] c = "\r" -> <<"\\", "r">>
      [] OTHER -> <<c>>

RECURSIVE dumps_chars(_)
dumps_chars(t) ==
    IF t = <<>> THEN <<>> ELSE dumps_char(Head(t)) \o dumps_chars(Tail(t))

\* json.dumps of a string
dumps_str(t) ==
    <<"\"">> \o dumps_chars(t) \o <<"\"">>

RECURSIVE dumps_items(_)
\* the strings of a list, serialized and joined by ", "
dumps_items(items) ==
    IF items = <<>> THEN <<>>
    ELSE dumps_str(Head(items)[2])
            \o (IF Len(items) > 1 THEN <<",", " ">> ELSE <<>>)
            \o dumps_items(Tail(items))

\* json.dumps of a field value: a string, a natural number or a list of strings
dumps_value(v) ==
    CASE v[1] = "str" -> dumps_str(v[2])
      [] v[1] = "num" -> Digits(v[2])
      [] v[1] = "arr" -> <<"[">> \o dumps_items(v[2]) \o <<"]">>

RECURSIVE dumps_fields(_)
dumps_fields(fields) ==
    IF fields = <<>> THEN <<>>
    ELSE dumps_str(Head(fields)[1]) \o <<":", " ">> \o dumps_value(Head(fields)[2])
            \o (IF Len(fields) > 1 THEN <<",", " ">> ELSE <<>>)
            \o dumps_fields(Tail(fields))

\* json.dumps of an object given as its fields in insertion order
dumps(fields) ==
    <<"{">> \o dumps_fields(fields) \o <<"}">>

RECURSIVE AsDict(_)
\* the object whose fields are given, as a JSON value
AsDict(fields) ==
    IF fields = <<>> THEN EmptyDict
    ELSE <<"obj", (Head(fields)[1] :> Head(fields)[2]) @@ AsDict(Tail(fields))[2]>>

Str(t) == <<"str", t>>

KeyVisualPrompt == <<"v","i","s","u","a","l","_","p","r","o","m","p","t">>

\* analysis results as the fields of the object, in order
ResultPlain ==
    << <<KeySentimentSummary, Str(<<"o","k">>)>>,
       <<KeyVibeTags, <<"arr", <<Str(<<"a">>), Str(<<"b">>), Str(<<"c">>)>> >> >>,
       <<KeyIntensityScore, <<"num", 8>> >> >>

ResultBraces ==
    << <<KeySentimentSummary, Str(<<"a","}","{","\"","\n">>)>>,
       <<KeyVibeTags, <<"arr", <<Str(<<"{">>), Str(<<"}">>), Str(<<"c">>), Str(<<>>), Str(<<"\\">>)>> >> >>,
       <<KeyIntensityScore, <<"num", 10>> >>,
       <<KeyVisualPrompt, Str(<<"p">>)>> >>

ResultEmpty ==
    << <<KeySentimentSummary, Str(<<>>)>>,
       <<KeyVibeTags, <<"arr", <<Str(<<"a">>), Str(<<"a">>), Str(<<"a">>)>> >> >>,
       <<KeyIntensityScore, <<"num", 1>> >> >>

AnalysisResults == {ResultPlain, ResultBraces, ResultEmpty}

InitNormalizer ==
    /\ variant = "gemini"
    /\ TMDB_API_KEY = TRUE
    /\ AI_API_KEY = TRUE
    /\ pc = "normalize"
    /\ status = 0
    /\ movie = NoMovie
    /\ reviews = <<>>
    /\ analysis = None
    /\ last_error = None
    /\ model_idx = 1
    /\ attempt = 0
    /\ catalog_calls = 0
    /\ trace = <<>>
    /\ last_call = NoCall
    /\ search = NoSearch
    /\ fetched = NoFetch
    /\ reviews_text = <<>>
    /\ prompt = <<>>
    /\ image = NoImage
    /\ conc = NoConc
    /\ \E fields \in AnalysisResults, prefix \in Prefixes, suffix \in Suffixes :
          norm = [stage |-> "input", original |-> AsDict(fields),
                  prefix |-> prefix, suffix |-> suffix,
                  text |-> prefix \o dumps(fields) \o suffix,
                  ok |-> FALSE, result |-> None]

\* lines 265-271 (and 128-134) applied to norm.text
Normalize ==
    /\ pc = "normalize"
    /\ norm.stage = "input"
    /\ \E doc \in {json_str(norm.text)} :
          \E r \in {json_loads(doc)} :
             norm' = [norm EXCEPT !.stage = "output",
                                  !.ok = parse_outcome(doc, r).ok,
                                  !.result = parse_outcome(doc, r).analysis]
    /\ pc' = "done"
    /\ UNCHANGED <<variant, TMDB_API_KEY, AI_API_KEY, status, movie, reviews, analysis,
                   last_error, model_idx, attempt, catalog_calls, trace, last_call, search,
                   fetched, reviews_text, prompt, image, conc>>

NextNormalizer == Normalize

SpecNormalizer == InitNormalizer /\ [][NextNormalizer]_vars

(***************************************************************************)
(* The prompt builder on its own: lines 95-106 and 226-237 applied to      *)
(* review sets whose joined length is below, at and above the cap          *)
(***************************************************************************)

\* the text of n characters c
Fill(c, n) ==
    [k \in 1..n |-> c]

\* the lengths of a review: two of 2499 joined give 5000 characters,
\* two of 4999 joined give 10000
ReviewLens == {0, 2499, 4999}

\* review sets as Step B leaves them: 1 to 5 entries, the i-th made of the digit i
ReviewSets ==
    UNION {{[i \in 1..n |-> Fill(DigitChars[i + 1], lens[i])] : lens \in [1..n -> ReviewLens]} :
           n \in 1..TopReviews}

InitPrompt ==
    /\ variant \in Variants
    /\ TMDB_API_KEY = TRUE
    /\ AI_API_KEY = TRUE
    /\ pc = "prompt"
    /\ status = 0
    /\ movie \in Movies
    /\ reviews \in ReviewSets
    /\ analysis = None
    /\ last_error = None
    /\ model_idx = 1
    /\ attempt = 0
    /\ catalog_calls = 2
    /\ trace = <<>>
    /\ last_call = NoCall
    /\ search = Searched("ok", <<movie>>)
    /\ norm = NoNorm
    /\ fetched = Fetched(FALSE, Len(reviews))
    /\ reviews_text = <<>>
    /\ prompt = <<>>
    /\ image = NoImage
    /\ conc = NoConc

NextPrompt == BuildPrompt

SpecPrompt == InitPrompt /\ [][NextPrompt]_vars

(***************************************************************************)
(* The image step (section 4.6 of the specification): a second generation  *)
(* step after a successful text analysis.  Its code is not among the       *)
(* revisions of analyze_movie at hand; it is modelled from its contract.   *)
(***************************************************************************)

IsStr(v) == v[1] = "str"

KeyImages == <<"i","m","a","g","e","s">>
KeyUrl == <<"u","r","l">>
KeyUnexpected == <<"u","n","e","x","p","e","c","t","e","d">>

UrlA == <<"h","t","t","p",":","/","/","x","/","a",".","p","n","g">>
UrlB == <<"h","t","t","p",":","/","/","x","/","b",".","p","n","g">>
UrlC == <<"h","t","t","p",":","/","/","x","/","c",".","p","n","g">>

ImageUrls == {UrlA, UrlB, UrlC}

Obj(key, val) == <<"obj", key :> val>>

\* what the image backend does: it raises, or returns one of its output shapes
ImageOutputs ==
    {Exc(ErrOther), Exc(Err429)}
        \cup {Str(u) : u \in ImageUrls}
        \cup {Obj(KeyImages, <<"arr", <<Obj(KeyUrl, Str(u))>> >>) : u \in ImageUrls}
        \cup {Obj(KeyUrl, Str(u)) : u \in ImageUrls}
        \cup {Obj(KeyUnexpected, Str(<<"s","h","a","p","e">>)),
              Obj(KeyImages, <<"arr", <<>> >>),
              Obj(KeyUrl, <<"num", 1>>),
              <<"num", 7>>, None}

IsObjWith(v, key) == v[1] = "obj" /\ key \in DOMAIN v[2]

\* an image step that lets a failure of the backend end the request
image_status_fatal(out) ==
    IF out[1] = "exc" THEN 500 ELSE 200

\* a failure of the image backend is logged and does not fail the request
image_status(out) ==
    200

\* the URL in the output of the image backend, or null
normalize_image(out) ==
    CASE out[1] = "exc" -> None
      [] out[1] = "str" -> out
      [] IsObjWith(out, KeyImages) /\ out[2][KeyImages][1] = "arr"
            /\ out[2][KeyImages][2] # <<>>
            /\ IsObjWith(out[2][KeyImages][2][1], KeyUrl)
            /\ IsStr(out[2][KeyImages][2][1][2][KeyUrl]) -> out[2][KeyImages][2][1][2][KeyUrl]
      [] IsObjWith(out, KeyUrl) /\ IsStr(out[2][KeyUrl]) -> out[2][KeyUrl]
      [] OTHER -> None

InitImage ==
    /\ variant = "gemini"
    /\ TMDB_API_KEY = TRUE
    /\ AI_API_KEY = TRUE
    /\ pc = "image"
    /\ status = 0
    /\ movie \in Movies
    /\ reviews = <<movie.overview>>
    /\ \E fields \in AnalysisResults : analysis = AsDict(fields)
    /\ last_error = None
    /\ model_idx = 1
    /\ attempt = 0
    /\ catalog_calls = 2
    /\ trace = <<Invoke(1)>>
    /\ last_call = Call(1, "parsed", "success", analysis, <<>>)
    /\ search = Searched("ok", <<movie>>)
    /\ norm = NoNorm
    /\ fetched = Fetched(FALSE, 0)
    /\ reviews_text = movie.overview
    /\ prompt = build_prompt(movie.title, movie.overview)
    /\ conc = NoConc
    /\ \E out \in ImageOutputs : image = [stage |-> "input", output |-> out, url |-> None]

\* generateImage and the assembly of the PipelineOutcome
GenerateImage ==
    /\ pc = "image"
    /\ image.stage = "input"
    /\ image' = [image EXCEPT !.stage = "output", !.url = normalize_image(image.output)]
    /\ Respond(image_status(image.output))
    /\ UNCHANGED <<variant, TMDB_API_KEY, AI_API_KEY, movie, reviews, analysis,
                   last_error, model_idx, attempt, catalog_calls, trace, last_call, search,
                   norm, fetched, reviews_text, prompt, conc>>

NextImage == GenerateImage

SpecImage == InitImage /\ [][NextImage]_vars

(***************************************************************************)
(* Two requests at once: analyze_movie is a plain def, which the server    *)
(* runs on a thread per request.  Each call has its own local variables;   *)
(* the steps of the two calls interleave in any order.                     *)
(***************************************************************************)

Requests == {1, 2}

Raises(e) == [raised |-> TRUE, text |-> e]
Returns(t) == [raised |-> FALSE, text |-> t]

\* what the backends answer to the successive invocations of one request;
\* the last answer repeats
ScriptBusy == <<Raises(Err429)>>
ScriptRetryThenValid == <<Raises(Err429), Raises(Err429), Returns(TextValid)>>
ScriptBoom == <<Raises(ErrOther)>>
ScriptValid == <<Returns(TextFenced)>>
ScriptMixed == <<Raises(ErrQuota), Raises(Err404), Returns(TextGarbage),
                 Returns(TextEmptyObject), Returns(TextPartial)>>
ScriptEmpty == <<Returns(TextEmptyObject), Raises(Err429), Raises(ErrOther)>>

Scripts == {ScriptBusy, ScriptRetryThenValid, ScriptBoom, ScriptValid, ScriptMixed, ScriptEmpty}

\* the answer to the k-th invocation of a request
ScriptResp(script, k) ==
    script[IF k < Len(script) THEN k ELSE Len(script)]

\* one set of local variables for all calls, as module-level variables would be
locals_shared(r) ==
    1

\* lines 175-245: analysis, last_error, model_name and attempt are local
\* variables of the call, so each request has its own
locals_of(r) ==
    r

InitConcurrent ==
    /\ variant = "gemini"
    /\ TMDB_API_KEY = TRUE
    /\ AI_API_KEY = TRUE
    /\ pc = "concurrent"
    /\ status = 0
    /\ movie = NoMovie
    /\ reviews = <<>>
    /\ analysis = None
    /\ last_error = None
    /\ model_idx = 1
    /\ attempt = 0
    /\ catalog_calls = 0
    /\ trace = <<>>
    /\ last_call = NoCall
    /\ search = NoSearch
    /\ norm = NoNorm
    /\ fetched = NoFetch
    /\ reviews_text = <<>>
    /\ prompt = <<>>
    /\ image = NoImage
    /\ \E scripts \in [Requests -> Scripts] :
          conc = [frames |-> [r \in Requests |-> InitFrame],
                  scripts |-> scripts,
                  calls |-> [r \in Requests |-> 0],
                  steps |-> [r \in Requests |-> 0]]

\* request r makes one pass of the retry loop
ConcGenerate(r) ==
    /\ pc = "concurrent"
    /\ conc.frames[locals_of(r)].pc = "generate"
    /\ conc' = [conc EXCEPT
                   !.frames[locals_of(r)] =
                       generate_step(@, ScriptResp(conc.scripts[r], conc.calls[r] + 1)),
                   !.calls[r] = @ + 1,
                   !.steps[r] = @ + 1]
    /\ UNCHANGED <<variant, TMDB_API_KEY, AI_API_KEY, pc, status, movie, reviews, analysis,
                   last_error, model_idx, attempt, catalog_calls, trace, last_call, search,
                   norm, fetched, reviews_text, prompt, image>>

\* request r returns its analysis or raises "All models failed"
ConcFinish(r) ==
    /\ pc = "concurrent"
    /\ conc.frames[locals_of(r)].pc = "finish"
    /\ conc' = [conc EXCEPT !.frames[locals_of(r)] = finish_step(@),
                            !.steps[r] = @ + 1]
    /\ UNCHANGED <<variant, TMDB_API_KEY, AI_API_KEY, pc, status, movie, reviews, analysis,
                   last_error, model_idx, attempt, catalog_calls, trace, last_call, search,
                   norm, fetched, reviews_text, prompt, image>>

NextConcurrent ==
    \/ \E r \in Requests : ConcGenerate(r)
    \/ \E r \in Requests : ConcFinish(r)

SpecConcurrent == InitConcurrent /\ [][NextConcurrent]_vars

(***************************************************************************)
(* Properties                                                              *)
(***************************************************************************)

IsInvoke(e) == e.ev = "invoke"

\* the candidates invoked so far, in order
Invocations == SelectSeq(trace, IsInvoke)

\* the number of invocations of candidate c so far
InvokesOf(c) == Cardinality({k \in DOMAIN trace : trace[k] = Invoke(c)})

\* every invocation of candidate c so far took the rate-limit branch:
\* time.sleep follows an invocation on that branch and on no other
EveryInvocationRateLimited(c) ==
    /\ InvokesOf(c) > 0
    /\ \A k \in DOMAIN trace :
          trace[k] = Invoke(c) => k < Len(trace) /\ trace[k + 1] = Sleep(c)

Fallback == variant = "gemini"

MissingConfig == ~TMDB_API_KEY \/ ~AI_API_KEY

\* the request ended with "All models failed"
Exhausted == Fallback /\ pc = "done" /\ trace # <<>> /\ status # 200

\* C1: in the fallback revision the candidates are invoked in the order of
\* models_to_try: an invocation of candidate i never follows one of a later
\* candidate j > i, and when an analysis is returned the invocation that
\* produced it is the last invocation of the request.
C1_CandidatesInListOrder ==
    Fallback =>
        /\ \A k1, k2 \in DOMAIN trace :
              (k1 < k2 /\ IsInvoke(trace[k1]) /\ IsInvoke(trace[k2]))
                  => trace[k1].cand <= trace[k2].cand
        /\ \A k \in DOMAIN trace : trace[k].cand \in 1..model_idx
        /\ status = 200 =>
              /\ trace # <<>>
              /\ trace[Len(trace)] = Invoke(last_call.cand)
              /\ last_call.kind = "parsed"
              /\ last_call.val = analysis

\* C1 witness: the third candidate produced the returned analysis after the
\* first was retried to its limit and the second was skipped
C1_Witness ==
    /\ Fallback /\ status = 200
    /\ InvokesOf(1) = max_retries /\ InvokesOf(2) = 1 /\ last_call.cand = 3

\* C2: when candidate 1 raises a rate-limited error on every invocation and
\* candidate 2 returns parseable output, candidate 1 has been invoked exactly
\* max_retries times, no further candidate is invoked, and the analysis
\* returned is the parsed output of candidate 2.
C2_RateLimitedThenParsed ==
    (/\ Fallback
     /\ EveryInvocationRateLimited(1)
     /\ last_call.cand = 2 /\ last_call.kind = "parsed")
        => /\ InvokesOf(1) = max_retries
           /\ pc \in {"finish", "done"}
           /\ analysis = last_call.val
           /\ pc = "done" => status = 200

\* a backend error with a not-found marker and no rate-limit marker
NotFoundCall ==
    /\ Fallback
    /\ last_call.kind = "error"
    /\ is_not_found(last_call.error_str)
    /\ ~is_rate_limit(last_call.error_str)

\* C3 as stated: a candidate whose invocation raises a not-found error is
\* invoked exactly once in the request.
C3_NotFoundInvokedOnce ==
    NotFoundCall => InvokesOf(last_call.cand) = 1

\* C3 (amended): an invocation that raises a not-found error is the last
\* invocation of its candidate: no sleep follows it and the orchestrator is at
\* the next candidate (or past the list); a candidate whose first invocation
\* raises not-found has been invoked exactly once.
C3_NotFoundAdvances ==
    NotFoundCall =>
        /\ trace[Len(trace)] = Invoke(last_call.cand)
        /\ pc = "generate" => (model_idx = last_call.cand + 1 /\ attempt = 0)
        /\ pc # "generate" => last_call.cand = Len(models_to_try)
        /\ (Len(Invocations) = 1
              \/ Invocations[Len(Invocations) - 1].cand # last_call.cand)
              => InvokesOf(last_call.cand) = 1

\* C3 witness: the first candidate raised not-found on its first invocation
\* and the orchestrator stands at the second
C3_Witness ==
    /\ NotFoundCall /\ last_call.cand = 1 /\ InvokesOf(1) = 1
    /\ pc = "generate" /\ model_idx = 2

\* C4: on exhaustion the status is 429 exactly when the last observed error
\* is rate-limited ("429" or "quota" in its text), and 500 otherwise.
C4_ExhaustionStatus ==
    Exhausted =>
        /\ status \in {429, 500}
        /\ status = 429 <=> (last_error # None /\ is_rate_limit(str(last_error)))

\* C5: a catalog search that succeeds with zero matches ends the request
\* with status 404.
C5_ZeroMatchesIs404 ==
    (pc = "done" /\ search.outcome = "ok" /\ search.matches = 0) => status = 404

\* C6: a generation backend is invoked only after the catalog search returned
\* at least one match with both keys configured; a request that ends on
\* missing keys, zero matches or a search error has made no invocation, and
\* one that ends on missing keys has made no catalog call either.
C6_GenerationAfterMatch ==
    /\ trace # <<>> =>
          (search.outcome = "ok" /\ search.matches >= 1 /\ ~MissingConfig)
    /\ MissingConfig => (trace = <<>> /\ catalog_calls = 0)
    /\ (pc = "done" /\ search.outcome # "" /\ (search.outcome # "ok" \/ search.matches = 0))
          => (trace = <<>> /\ last_call = NoCall)

\* C6 witness: a request ended on zero matches without any invocation
C6_Witness ==
    /\ pc = "done" /\ search.outcome = "ok" /\ search.matches = 0
    /\ trace = <<>> /\ catalog_calls = 1

SearchErrors == {"connection_error", "http_error", "bad_json"}

\* C7 as stated: a catalog search that errors (network failure, non-2xx
\* response, malformed body) ends the request with status 502.
C7_SearchErrorIs502 ==
    (pc = "done" /\ search.outcome \in SearchErrors) => status = 502

\* C7 (amended): a non-2xx response of the catalog search ends the request
\* with status 502; a network failure and a malformed body end it with the
\* generic status 500.
C7_SearchErrorStatus ==
    (pc = "done" /\ search.outcome \in SearchErrors) =>
        /\ search.outcome = "http_error" => status = 502
        /\ search.outcome \in {"connection_error", "bad_json"} => status = 500
        /\ trace = <<>>

\* C7 witness: a request ended on a non-2xx response of the search
C7_Witness ==
    pc = "done" /\ search.outcome = "http_error" /\ status = 502

\* the fallback literal of the normalizer, for a movie title
FallbackLiteral(title) ==
    <<"obj",
      (KeySentimentSummary :> <<"str", <<"V","i","b","e","s"," ","a","r","e"," ","m","y","s","t","e","r","i","o","u","s",".",".",".">> >>)
      @@ (KeyVibeTags :> <<"arr", << <<"str", <<"M","y","s","t","e","r","y">> >>,
                                     <<"str", <<"U","n","k","n","o","w","n">> >> >> >>)
      @@ (KeyIntensityScore :> <<"num", 5>>)
      @@ (KeyVisualPrompt :>
            <<"str", <<"A"," ","m","y","s","t","e","r","i","o","u","s"," ","a","b","s","t","r","a","c","t"," ","p","o","s","t","e","r"," ","f","o","r"," ","t","h","e"," ","m","o","v","i","e"," ">> \o title>>) >>

\* C8: when a backend returns without error and its output cannot be parsed,
\* the request does not end in an error for it: the analysis is the fallback
\* literal for the movie title.
C8_MalformedOutputMasked ==
    (pc = "done" /\ last_call.kind = "parse_error") =>
        (status = 200 /\ analysis = FallbackLiteral(movie.title))

\* an analysis with sentiment_summary, 3 to 5 vibe_tags and intensity_score 1..10
FullyPopulated(v) ==
    /\ v[1] = "obj"
    /\ {KeySentimentSummary, KeyVibeTags, KeyIntensityScore} \subseteq DOMAIN v[2]
    /\ IsStr(v[2][KeySentimentSummary])
    /\ v[2][KeyVibeTags][1] = "arr"
    /\ Len(v[2][KeyVibeTags][2]) \in 3..5
    /\ \A i \in DOMAIN v[2][KeyVibeTags][2] : IsStr(v[2][KeyVibeTags][2][i])
    /\ v[2][KeyIntensityScore][1] = "num"
    /\ v[2][KeyIntensityScore][2] \in 1..10

Normalized == norm.stage = "output"

\* C9 as stated: for every analysis result serialized to JSON and wrapped in
\* any surrounding text, also text with "{" or "}" in it, parsing the span
\* from the first "{" to the last "}" recovers the original object.
C9_RoundTripAnyWrapper ==
    Normalized => (norm.ok /\ norm.result = norm.original)

\* C9 (amended): for every analysis result serialized to JSON and wrapped in
\* surrounding text with no "{" before the object and no "}" after it (a
\* markdown fence, prose), parsing the span from the first "{" to the last
\* "}" recovers the original object.
C9_RoundTrip ==
    (Normalized /\ ~Contains(<<"{">>, norm.prefix) /\ ~Contains(<<"}">>, norm.suffix))
        => (norm.ok /\ norm.result = norm.original)

\* C9 witness: the object with braces, quotes and a newline inside its
\* strings came back from inside a markdown fence
C9_Witness ==
    /\ Normalized /\ norm.original = AsDict(ResultBraces)
    /\ norm.prefix = FenceOpen /\ norm.suffix = FenceClose
    /\ norm.ok /\ norm.result = norm.original

\* C10: every successful outcome carries a fully populated analysis.
C10_SuccessFullyPopulated ==
    status = 200 => FullyPopulated(analysis)

\* C11: a failure of the review fetch does not end the request: the review
\* set is the one-element sequence holding the synopsis of the matched movie
\* and the handler goes on to the prompt and the generation stage; in every
\* run the review set is non-empty, has at most 5 entries, and holds the
\* catalog's reviews in the catalog's order.
C11_ReviewSet ==
    fetched.done =>
        /\ reviews # <<>>
        /\ Len(reviews) <= 5
        /\ fetched.failed =>
              /\ reviews = <<movie.overview>>
              /\ pc \in {"prompt", "bytez", "generate", "finish", "done"}
              /\ trace = <<>> => (status = 0 /\ pc \in {"prompt", "bytez", "generate"})
        /\ (~fetched.failed /\ fetched.count = 0) => reviews = <<movie.overview>>
        /\ fetched.count > 0 =>
              /\ Len(reviews) = (IF fetched.count < 5 THEN fetched.count ELSE 5)
              /\ \A i \in DOMAIN reviews : reviews[i] = CatalogReviews(fetched.count)[i]

\* C11 witness: after a failed review fetch a generation backend was invoked
\* with the synopsis as the only review
C11_Witness ==
    /\ fetched.done /\ fetched.failed /\ trace # <<>>
    /\ reviews = <<movie.overview>> /\ movie = MovieUp

PromptBuilt == fetched.done /\ pc \notin {"reviews", "prompt"}

\* C12: for every review set of 1 to 5 entries the review text in the prompt
\* is no longer than the cap of the revision and is a prefix of the reviews
\* joined by a blank line; the whole instruction preamble precedes it in the
\* prompt, and the prompt ends with it.
C12_PromptCap ==
    (PromptBuilt /\ Len(reviews) \in 1..5) =>
        \A joined \in {join(BlankLine, reviews)}, pre \in {preamble(movie.title)} :
            /\ Len(reviews_text) <= reviews_cap(variant)
            /\ Len(reviews_text) <= Len(joined)
            /\ \A k \in 1..Len(reviews_text) : reviews_text[k] = joined[k]
            /\ Len(joined) <= reviews_cap(variant) => reviews_text = joined
            /\ Len(prompt) = Len(pre) + Len(reviews_text)
            /\ \A k \in 1..Len(pre) : prompt[k] = pre[k]
            /\ \A k \in 1..Len(reviews_text) : prompt[Len(pre) + k] = reviews_text[k]

\* C12 witness: five reviews whose joined text is longer than the cap were
\* cut to exactly the cap
C12_Witness ==
    /\ PromptBuilt /\ Len(reviews) = 5 /\ variant = "gemini"
    /\ Len(reviews[1]) = 4999 /\ Len(reviews[2]) = 4999 /\ Len(reviews[3]) = 2499
    /\ Len(reviews_text) = 10000

ImageStepDone == image.stage = "output"

\* C13: whenever the text analysis succeeded, the outcome carries that
\* analysis and a generated image URL that is a URL or null, with status 200,
\* whatever the image backend did: when it raised or returned an unexpected
\* shape the URL is null.
C13_ImageFailureNotFatal ==
    ImageStepDone =>
        /\ pc = "done" /\ status = 200
        /\ analysis = last_call.val
        /\ image.url = None \/ (IsStr(image.url) /\ image.url[2] \in ImageUrls)
        /\ image.output[1] \in {"exc", "num", "null"} => image.url = None
        /\ IsObjWith(image.output, KeyUnexpected) => image.url = None

\* C13 witness: the image backend raised and the analysis was delivered
C13_Witness ==
    /\ ImageStepDone /\ image.output = Exc(ErrOther)
    /\ status = 200 /\ analysis = AsDict(ResultBraces) /\ image.url = None

ParseErrorCall == Fallback /\ last_call.kind = "parse_error"

\* C14: after an invocation that returned without a backend error and whose
\* output failed JSON parsing, whatever the text of the parse error, no sleep
\* is taken and the orchestrator is at the next candidate or past the list:
\* the candidate is not invoked again.
C14_ParseFailureAdvances ==
    ParseErrorCall =>
        /\ trace[Len(trace)] = Invoke(last_call.cand)
        /\ last_call.branch = "skip"
        /\ pc = "generate" => (model_idx = last_call.cand + 1 /\ attempt = 0)
        /\ pc # "generate" => last_call.cand = Len(models_to_try)

\* a backend error whose text has no rate-limit and no not-found marker
UnknownErrorCall ==
    /\ Fallback
    /\ last_call.kind = "error"
    /\ last_call.error_str \notin {Err429, ErrQuota, Err404}

\* C15 as stated: a candidate whose invocation raises an error that is
\* neither rate-limited nor not-found is invoked at most once in the request.
C15_UnknownInvokedOnce ==
    UnknownErrorCall => InvokesOf(last_call.cand) <= 1

\* C15 (amended): an invocation that raises an error that is neither
\* rate-limited nor not-found is the last invocation of its candidate: no
\* sleep follows it and the orchestrator is at the next candidate (or past
\* the list); a candidate whose first invocation raises such an error has
\* been invoked exactly once.
C15_UnknownAdvances ==
    UnknownErrorCall =>
        /\ trace[Len(trace)] = Invoke(last_call.cand)
        /\ pc = "generate" => (model_idx = last_call.cand + 1 /\ attempt = 0)
        /\ pc # "generate" => last_call.cand = Len(models_to_try)
        /\ (Len(Invocations) = 1
              \/ Invocations[Len(Invocations) - 1].cand # last_call.cand)
              => InvokesOf(last_call.cand) = 1

\* C15 witness: the second candidate raised an unknown error on its first
\* invocation and the orchestrator stands at the third
C15_Witness ==
    /\ UnknownErrorCall /\ last_call.cand = 2 /\ InvokesOf(2) = 1
    /\ pc = "generate" /\ model_idx = 3

\* the number of backoff sleeps taken for candidate c so far
SleepsOf(c) == Cardinality({k \in DOMAIN trace : trace[k] = Sleep(c)})

\* C16: the backoff sleep is taken only between two invocations of the same
\* candidate: what follows a sleep is an invocation of the candidate slept
\* for, never an invocation of the next candidate nor the end of the loop,
\* and a candidate incurs at most max_retries - 1 sleeps.
C16_SleepOnlyBetweenRetries ==
    /\ \A k \in DOMAIN trace :
          trace[k].ev = "sleep" =>
              /\ k < Len(trace) => trace[k + 1] = Invoke(trace[k].cand)
              /\ k = Len(trace) => (pc = "generate" /\ model_idx = trace[k].cand)
    /\ \A c \in DOMAIN models_to_try : SleepsOf(c) <= max_retries - 1

\* C17: when the request ends in exhaustion, the error it carries is the
\* error of the most recent invocation: it is not None and not an error left
\* over from an earlier invocation.
C17_ExhaustionCarriesLastError ==
    Exhausted =>
        /\ last_error # None
        /\ last_call.kind \in {"error", "parse_error"}
        /\ last_error = Exc(last_call.error_str)

\* C18: once an invocation returned output that json.loads parsed, also an
\* empty object or another value Python takes as false, no further candidate
\* is invoked and the request ends with status 200 and that value as the
\* analysis; a request that ends in exhaustion has no parsed invocation last.
C18_ParsedOutputEndsRequest ==
    (Fallback /\ last_call.kind = "parsed") =>
        /\ analysis = last_call.val
        /\ pc \in {"finish", "done"}
        /\ pc = "done" => status = 200

\* C19: with every backend call returning or raising, the request reaches
\* its end whatever the backends answer, after at most
\* Len(models_to_try) * max_retries invocations in total (12) and at most
\* max_retries invocations of each candidate.
C19_Terminates ==
    /\ [](/\ Len(Invocations) <= Len(models_to_try) * max_retries
          /\ \A c \in DOMAIN models_to_try : InvokesOf(c) <= max_retries
          /\ \A k \in DOMAIN trace : trace[k].cand \in DOMAIN models_to_try)
    /\ <>(pc = "done")

\* C19 witness: a request ended after twelve invocations, three of each candidate
C19_Witness ==
    /\ pc = "done" /\ Fallback /\ Len(Invocations) = 12
    /\ \A c \in DOMAIN models_to_try : InvokesOf(c) = max_retries

RECURSIVE solo_run(_, _, _, _)
\* the local variables of a request that runs alone against a script, after n steps
solo_run(f, script, calls, n) ==
    IF n = 0 \/ f.pc = "done" THEN f
    ELSE IF f.pc = "generate"
    THEN solo_run(generate_step(f, ScriptResp(script, calls + 1)), script, calls + 1, n - 1)
    ELSE solo_run(finish_step(f), script, calls, n - 1)

\* the request's end when it runs alone against a script
solo_outcomes ==
    [script \in Scripts |->
        solo_run(InitFrame, script, 0, Len(models_to_try) * max_retries + 1)]

\* C20: under every interleaving of the steps of two requests, the candidate
\* position, attempt count, last error and analysis of each request are at
\* every moment what they would be had the request run alone against the same
\* backend answers, and so is the outcome it ends with.
C20_NoInterference ==
    pc = "concurrent" =>
        \A r \in Requests :
            /\ conc.frames[r] = solo_run(InitFrame, conc.scripts[r], 0, conc.steps[r])
            /\ conc.frames[r].pc = "done" =>
                  /\ conc.frames[r].status = solo_outcomes[conc.scripts[r]].status
                  /\ conc.frames[r].analysis = solo_outcomes[conc.scripts[r]].analysis

\* C20 witness: the two requests were under way at different candidates at
\* the same time, and one ended rate-limited while the other was still retrying
C20_Witness ==
    /\ pc = "concurrent"
    /\ conc.scripts[1] = ScriptBusy /\ conc.scripts[2] = ScriptRetryThenValid
    /\ conc.frames[1].pc = "done" /\ conc.frames[1].status = 429
    /\ conc.frames[2].pc = "generate" /\ conc.frames[2].attempt = 2
    /\ conc.steps[1] = 13 /\ conc.steps[2] = 2

====
